---------------------------- MODULE Spec2Model ----------------------------
(***************************************************************************)
(* A model of src/main.py, the DialAI call-initiation service: the phone   *)
(* number normalizer (parse_phone_numbers), the command interpreter        *)
(* (parse_ai_command), the call dispatcher (make_twilio_call), the call    *)
(* log store (load_call_logs / save_call_log / cleanup_all_logs) and the   *)
(* HTTP handlers that combine them.                                        *)
(*                                                                         *)
(* Python values are represented as follows.  A str is a sequence of       *)
(* one-character strings.  None is the empty tuple and a present optional  *)
(* value x is the one-element tuple <<x>>.  A dict is a function from its  *)
(* keys (TLA+ strings) to tagged values.  A list is a sequence.            *)
(***************************************************************************)
EXTENDS Integers, Sequences, FiniteSets, TLC

VARIABLES
    \* ---- configuration and the outside world
    twilio_client,   \* TRUE iff the module-level Twilio client was constructed
    ai_provider,     \* "none", "gemini" or "openai"
    verified_ids,    \* the provider's outgoing caller IDs (a list of str)
    calls_json_0,    \* the content of CALLS_JSON when the service started
    calls_json,      \* the content of the file CALLS_JSON
    provider_calls,  \* the call requests the provider has received from each
                     \* HTTP request, in order
    req,             \* the HTTP requests in flight: one record per request
    \* ---- one run of parse_phone_numbers, loop iteration by loop iteration
    n_pc, n_text, n_index, n_numbers, n_i, n_cleaned, n_again,
    \* ---- one run of parse_ai_command
    c_pc, c_prompt, c_reply, c_parsed

worldVars == <<twilio_client, ai_provider, verified_ids, calls_json_0>>
storeVars == <<calls_json, provider_calls, req>>
normVars  == <<n_pc, n_text, n_index, n_numbers, n_i, n_cleaned, n_again>>
cmdVars   == <<c_pc, c_prompt, c_reply, c_parsed>>
vars      == <<worldVars, storeVars, normVars, cmdVars>>

(***************************************************************************)
(* Bounds of the model.                                                    *)
(***************************************************************************)
\* the number of comma-separated candidates in a normalizer input text
MaxCandidates == 2
\* the number of HTTP requests served, which may overlap
NumRequests == 2

(***************************************************************************)
(* Strings.                                                                *)
(***************************************************************************)
None == <<>>
Some(x) == <<x>>

Digit == {"0", "1", "2", "3", "4", "5", "6", "7", "8", "9"}
Whitespace == {" ", "\t", "\n", "\r"}

IsDigit(c) == c \in Digit
IsDigitOrPlus(c) == c \in Digit \cup {"+"}

RECURSIVE lstrip(_)
lstrip(s) == IF s # <<>> /\ Head(s) \in Whitespace THEN lstrip(Tail(s)) ELSE s

RECURSIVE rstrip(_)
rstrip(s) ==
    IF s # <<>> /\ s[Len(s)] \in Whitespace
    THEN rstrip(SubSeq(s, 1, Len(s) - 1))
    ELSE s

\* str.strip()
strip(s) == rstrip(lstrip(s))

\* re.sub(r'[^\d+]', '', s): every '+' is kept, wherever it stands
KeepDigitsPlus(s) == SelectSeq(s, IsDigitOrPlus)

\* re.sub(r'[^\d]', '', s)
DigitsOnly(s) == SelectSeq(s, IsDigit)

\* str.startswith(p)
startswith(s, p) == Len(s) >= Len(p) /\ SubSeq(s, 1, Len(p)) = p

\* str.replace(c, ''), for a one-character c
remove_char(s, c) == SelectSeq(s, LAMBDA x : x # c)

\* s[-10:]
last_10(s) == SubSeq(s, Len(s) - 9, Len(s))

\* p in s, for strings
contains(s, p) ==
    \E k \in 1..(Len(s) - Len(p) + 1) : SubSeq(s, k, k + Len(p) - 1) = p

UPPER == <<"A","B","C","D","E","F","G","H","I","J","K","L","M",
           "N","O","P","Q","R","S","T","U","V","W","X","Y","Z">>
LOWER == <<"a","b","c","d","e","f","g","h","i","j","k","l","m",
           "n","o","p","q","r","s","t","u","v","w","x","y","z">>

lower_char(c) ==
    IF \E k \in 1..26 : UPPER[k] = c
    THEN LOWER[CHOOSE k \in 1..26 : UPPER[k] = c]
    ELSE c

\* str.lower()
lower(s) == [k \in 1..Len(s) |-> lower_char(s[k])]

Separator == {",", "\n", "\r"}

\* re.split(r'[,\n\r]+', s): a run of separators splits once; a separator at
\* either end of s yields an empty first or last piece
RECURSIVE re_split_from(_, _, _)
re_split_from(s, cur, insep) ==
    IF s = <<>> THEN <<cur>>
    ELSE IF Head(s) \in Separator
         THEN IF insep
              THEN re_split_from(Tail(s), cur, TRUE)
              ELSE <<cur>> \o re_split_from(Tail(s), <<>>, TRUE)
         ELSE re_split_from(Tail(s), Append(cur, Head(s)), FALSE)

re_split(s) == re_split_from(s, <<>>, FALSE)

(***************************************************************************)
(* The Number Normalizer.                                                  *)
(***************************************************************************)
\* get_verified_numbers(): the provider's list, or [] when there is no
\* client or the query raises (list_ok = FALSE)
get_verified_numbers(list_ok) ==
    IF twilio_client /\ list_ok THEN verified_ids ELSE <<>>

\* d[k] = v on a dict d
dict_put(d, k, v) == [x \in DOMAIN d \cup {k} |-> IF x = k THEN v ELSE d[x]]

\* the loop building verified_digits: a later verified number with the same
\* last 10 characters replaces an earlier one
RECURSIVE build_verified_digits(_, _)
build_verified_digits(vs, acc) ==
    IF vs = <<>> THEN acc
    ELSE LET v      == Head(vs)
             digits == KeepDigitsPlus(v)
         IN  build_verified_digits(
                 Tail(vs),
                 IF Len(digits) >= 10
                 THEN dict_put(acc, last_10(digits),
                               remove_char(remove_char(v, " "), "-"))
                 ELSE acc)

verified_digits(list_ok) ==
    build_verified_digits(get_verified_numbers(list_ok), [x \in {} |-> <<>>])

\* the candidate after the cleaning of line 166
clean_candidate(num) == KeepDigitsPlus(strip(num))

\* a mutant of add_country_code: the verified-number index is never consulted
add_country_code_no_index(num_clean, index) ==
    IF ~startswith(num_clean, <<"+">>)
    THEN IF Len(num_clean) = 10 THEN <<"+", "1">> \o num_clean
         ELSE <<"+">> \o num_clean
    ELSE num_clean

\* a mutant of add_country_code: the test of line 174 for a leading '+' is
\* missing, so a prefixed number goes through the rules for unprefixed ones
add_country_code_no_guard(num_clean, index) ==
    IF Len(num_clean) = 10
    THEN IF num_clean \in DOMAIN index
         THEN index[num_clean]
         ELSE <<"+", "1">> \o num_clean
    ELSE IF Len(num_clean) = 11 /\ startswith(num_clean, <<"1">>)
    THEN <<"+">> \o num_clean
    ELSE <<"+">> \o num_clean

\* the if/elif chain of lines 174-196, in the order of the code: the second
\* 10-digit branch (line 187) can never be taken
add_country_code(num_clean, index) ==
    IF ~startswith(num_clean, <<"+">>)
    THEN IF Len(num_clean) = 10
         THEN IF num_clean \in DOMAIN index
              THEN index[num_clean]
              ELSE <<"+", "1">> \o num_clean
         ELSE IF Len(num_clean) = 11 /\ startswith(num_clean, <<"1">>)
         THEN <<"+">> \o num_clean
         ELSE IF Len(num_clean) = 10 /\ startswith(num_clean, <<"9">>)
         THEN IF num_clean \in DOMAIN index
              THEN index[num_clean]
              ELSE <<"+", "9", "1">> \o num_clean
         ELSE <<"+">> \o num_clean
    ELSE num_clean

\* one iteration of the loop of parse_phone_numbers: what it appends to
\* cleaned, <<>> when the candidate is skipped or discarded
normalize_candidate(num, index) ==
    LET num_clean == clean_candidate(num)
    IN  IF num_clean = <<>> THEN <<>>
        ELSE LET out == add_country_code(num_clean, index)
             IN  IF Len(DigitsOnly(out)) >= 10 THEN <<out>> ELSE <<>>

RECURSIVE normalize_all(_, _)
normalize_all(numbers, index) ==
    IF numbers = <<>> THEN <<>>
    ELSE normalize_candidate(Head(numbers), index)
             \o normalize_all(Tail(numbers), index)

\* parse_phone_numbers(text) as a whole
parse_phone_numbers(text, list_ok) ==
    normalize_all(re_split(text), verified_digits(list_ok))


(***************************************************************************)
(* The parts of the state a specification does not use stay as they are    *)
(* here.                                                                   *)
(***************************************************************************)
StoreOff ==
    /\ calls_json_0 = None /\ calls_json = None
    /\ provider_calls = <<>> /\ req = <<>>

NormOff ==
    /\ n_pc = "off" /\ n_text = <<>> /\ n_index = <<>> /\ n_numbers = <<>>
    /\ n_i = 1 /\ n_cleaned = <<>> /\ n_again = None

CmdOff == c_pc = "off" /\ c_prompt = <<>> /\ c_reply = None /\ c_parsed = None

(***************************************************************************)
(* Inputs of the normalizer.                                               *)
(***************************************************************************)
N_india      == <<"9","8","7","6","5","4","3","2","1","0">>
N_us         == <<"4","5","6","7","8","9","0","1","2","3">>
N_short      == <<"1","2","3">>
N_e164       == <<"+","4","4","2","0","7","1","8","3","8","7","5","0">>
N_eleven     == <<"1","4","5","6","7","8","9","0","1","2","3">>
N_plus_short == <<"+","1","2","3">>
N_plus_fmt   == <<"+","9","1"," ","9","8","7","6","5","-","4","3","2","1","0">>
N_local      == <<"4","1","5","5","5","5","1","2","3","4">>
N_twelve     == <<"2","3","4","5","6","7","8","9","0","1","2","3">>
N_spaced     == <<" ","9","8","7","6","5"," ","4","3","2","1","0">>

V_us  == <<"+","1"," ","4","1","5","-","5","5","5","-","1","2","3","4">>
V_in  == <<"+","9","1","9","8","7","6","5","4","3","2","1","0">>
V_us9 == <<"+","1","9","8","7","6","5","4","3","2","1","0">>

\* the upload of the spec's scenario: "123, 4567890123\n+442071838750"
T_scenario ==
    <<"1","2","3",","," ","4","5","6","7","8","9","0","1","2","3","\n",
      "+","4","4","2","0","7","1","8","3","8","7","5","0">>

CandidatePool ==
    {<<>>, N_india, N_us, N_short, N_e164, N_eleven, N_plus_short,
     N_plus_fmt, N_local, N_twelve, N_spaced}

\* the lists the provider may hold; in the last, two verified numbers share
\* their last 10 digits
VerifiedPool == {<<>>, <<V_us>>, <<V_in>>, <<V_us9, V_in>>}

RECURSIVE join(_)
join(parts) ==
    IF Len(parts) = 0 THEN <<>>
    ELSE IF Len(parts) = 1 THEN parts[1]
    ELSE parts[1] \o <<",">> \o join(Tail(parts))

NormTexts ==
    {T_scenario} \cup
    UNION {{join(f) : f \in [1..k -> CandidatePool]} : k \in 1..MaxCandidates}

(***************************************************************************)
(* SpecNorm: parse_phone_numbers run on one text, one loop iteration per   *)
(* step, followed by a second run on one of the numbers it returned.       *)
(***************************************************************************)
InitNorm ==
    /\ twilio_client \in BOOLEAN
    /\ ai_provider = "none"
    /\ verified_ids \in VerifiedPool
    /\ StoreOff /\ CmdOff
    /\ n_pc = "start" /\ n_text \in NormTexts
    /\ n_index = <<>> /\ n_numbers = <<>> /\ n_i = 1 /\ n_cleaned = <<>>
    /\ n_again = None

\* lines 150-163
ParseStart ==
    /\ n_pc = "start"
    /\ \E list_ok \in BOOLEAN : n_index' = verified_digits(list_ok)
    /\ n_numbers' = re_split(n_text)
    /\ n_i' = 1 /\ n_cleaned' = <<>> /\ n_pc' = "loop"
    /\ UNCHANGED <<n_text, n_again, worldVars, storeVars, cmdVars>>

\* lines 164-201, one candidate
ParseIterate ==
    /\ n_pc = "loop" /\ n_i <= Len(n_numbers)
    /\ n_cleaned' = n_cleaned \o normalize_candidate(n_numbers[n_i], n_index)
    /\ n_i' = n_i + 1
    /\ UNCHANGED <<n_pc, n_text, n_index, n_numbers, n_again,
                   worldVars, storeVars, cmdVars>>

\* line 203
ParseReturn ==
    /\ n_pc = "loop" /\ n_i > Len(n_numbers)
    /\ n_pc' = "returned"
    /\ UNCHANGED <<n_text, n_index, n_numbers, n_i, n_cleaned, n_again,
                   worldVars, storeVars, cmdVars>>

\* parse_phone_numbers called again on the j-th number it returned
Renormalize ==
    /\ n_pc = "returned"
    /\ \E j \in 1..Len(n_cleaned), list_ok \in BOOLEAN :
          n_again' = Some([of  |-> j,
                           out |-> parse_phone_numbers(n_cleaned[j], list_ok)])
    /\ n_pc' = "again"
    /\ UNCHANGED <<n_text, n_index, n_numbers, n_i, n_cleaned,
                   worldVars, storeVars, cmdVars>>

NextNorm == ParseStart \/ ParseIterate \/ ParseReturn \/ Renormalize

SpecNorm == InitNorm /\ [][NextNorm]_vars

\* the candidate of the iteration that has just run, cleaned as in line 166
LastCandidate == clean_candidate(n_numbers[n_i - 1])
IterationDone == n_pc \in {"loop", "returned", "again"} /\ n_i > 1
TenDigits(c) == Len(c) = 10 /\ \A k \in 1..10 : c[k] \in Digit
Appended(x) == n_cleaned # <<>> /\ n_cleaned[Len(n_cleaned)] = x

\* C1: an unmatched 10-digit candidate is output as '+91' and its digits
\* when it starts with 9, and as '+1' and its digits otherwise.
C1_DefaultCountryCode ==
    (IterationDone /\ TenDigits(LastCandidate)
        /\ LastCandidate \notin DOMAIN n_index)
    => Appended((IF LastCandidate[1] = "9" THEN <<"+", "9", "1">>
                 ELSE <<"+", "1">>) \o LastCandidate)

\* C6: a 10-digit candidate that is a key of the verified-number index is
\* output as the form the index keeps for it, which is a verified number of
\* the provider with its spaces and dashes removed and with those last 10
\* digits.
C6_VerifiedFormat ==
    (IterationDone /\ TenDigits(LastCandidate)
        /\ LastCandidate \in DOMAIN n_index)
    => /\ Appended(n_index[LastCandidate])
       /\ \E k \in 1..Len(verified_ids) :
             /\ n_index[LastCandidate]
                    = remove_char(remove_char(verified_ids[k], " "), "-")
             /\ last_10(KeepDigitsPlus(verified_ids[k])) = LastCandidate
             /\ \A m \in (k + 1)..Len(verified_ids) :
                    last_10(KeepDigitsPlus(verified_ids[m])) # LastCandidate

C6_Witness ==
    /\ IterationDone /\ TenDigits(LastCandidate)
    /\ LastCandidate \in DOMAIN n_index
    /\ Len(verified_ids) = 2
    /\ Appended(V_in)

\* C7 as stated: every candidate that begins with '+' is output in its
\* cleaned form.
C7_PlusKeptAlways ==
    (IterationDone /\ startswith(LastCandidate, <<"+">>))
    => Appended(LastCandidate)

\* C7, amended: a candidate that begins with '+' and holds at least 10 digits
\* is output in its cleaned form, and a returned number that begins with '+'
\* is returned unchanged when it is normalized again.
C7_PlusKept ==
    /\ (IterationDone /\ startswith(LastCandidate, <<"+">>)
            /\ Len(DigitsOnly(LastCandidate)) >= 10)
       => Appended(LastCandidate)
    /\ (n_again # None /\ startswith(n_cleaned[n_again[1].of], <<"+">>))
       => n_again[1].out = <<n_cleaned[n_again[1].of]>>

C7_Witness ==
    /\ n_again # None
    /\ \E k \in 1..Len(n_numbers) :
          /\ startswith(n_numbers[k], <<"+">>)
          /\ clean_candidate(n_numbers[k]) # n_numbers[k]
          /\ n_cleaned[n_again[1].of] = clean_candidate(n_numbers[k])


(***************************************************************************)
(* The Command Interpreter.                                                *)
(*                                                                         *)
(* The text a language model replies with is a sequence of tokens: the     *)
(* punctuation of JSON, string and number literals, white space, and       *)
(* words of prose.  The backend's reply is None when the call raises, and  *)
(* Some(text) otherwise.                                                   *)
(***************************************************************************)
Punct(c) == [k |-> "p", v |-> <<c>>]
StrLit(x) == [k |-> "s", v |-> x]
NumLit(x) == [k |-> "n", v |-> x]
Word(x) == [k |-> "w", v |-> x]
Blank == [k |-> "ws", v |-> <<" ">>]

\* Python values held in a parsed command
PyStr(x) == [t |-> "str", v |-> x]
PyInt(x) == [t |-> "int", v |-> x]

K_action == <<"a","c","t","i","o","n">>
K_number == <<"n","u","m","b","e","r">>
K_error  == <<"e","r","r","o","r">>
call_single == <<"c","a","l","l","_","s","i","n","g","l","e">>
call_all    == <<"c","a","l","l","_","a","l","l">>
unknown     == <<"u","n","k","n","o","w","n">>
could_not_parse ==
    <<"C","o","u","l","d"," ","n","o","t"," ","p","a","r","s","e"," ",
      "c","o","m","m","a","n","d">>
S_call          == <<"c","a","l","l">>
S_start_calling == <<"s","t","a","r","t"," ","c","a","l","l","i","n","g">>
S_call_all      == <<"c","a","l","l"," ","a","l","l">>

EmptyDict == [x \in {} |-> <<>>]

\* re.search(r'\{[^}]+\}', text): the leftmost '{' that is followed by at
\* least one token other than '}' and then a '}'; None when there is none
RECURSIVE re_search_object_from(_, _)
re_search_object_from(text, i) ==
    IF i > Len(text) THEN None
    ELSE IF text[i] = Punct("{")
            /\ \E j \in (i + 2)..Len(text) :
                  /\ text[j] = Punct("}")
                  /\ \A m \in (i + 1)..(j - 1) : text[m] # Punct("}")
         THEN LET j == CHOOSE j \in (i + 2)..Len(text) :
                          /\ text[j] = Punct("}")
                          /\ \A m \in (i + 1)..(j - 1) : text[m] # Punct("}")
              IN  Some(SubSeq(text, i, j))
         ELSE re_search_object_from(text, i + 1)

re_search_object(text) == re_search_object_from(text, 1)

json_value(tok) == IF tok.k = "s" THEN PyStr(tok.v) ELSE PyInt(tok.v)

\* the members of a JSON object: "key": value, separated by commas; a key
\* given twice keeps its last value
RECURSIVE json_members(_, _)
json_members(body, acc) ==
    IF \/ Len(body) < 3
       \/ body[1].k # "s"
       \/ body[2] # Punct(":")
       \/ body[3].k \notin {"s", "n"}
    THEN None
    ELSE LET acc2 == dict_put(acc, body[1].v, json_value(body[3]))
         IN  IF Len(body) = 3 THEN Some(acc2)
             ELSE IF body[4] = Punct(",") /\ Len(body) > 4
             THEN json_members(SubSeq(body, 5, Len(body)), acc2)
             ELSE None

\* json.loads on the text matched by re_search_object: Some(dict), or None
\* when it raises
json_loads_object(match) ==
    LET toks == SelectSeq(match, LAMBDA tok : tok.k # "ws")
        body == SubSeq(toks, 2, Len(toks) - 1)
    IN  IF body = <<>> THEN Some(EmptyDict) ELSE json_members(body, EmptyDict)

\* the maximal runs of digits of s, in order
RECURSIVE digit_runs(_, _)
digit_runs(s, cur) ==
    IF s = <<>> THEN (IF cur = <<>> THEN <<>> ELSE <<cur>>)
    ELSE IF Head(s) \in Digit
         THEN digit_runs(Tail(s), Append(cur, Head(s)))
         ELSE (IF cur = <<>> THEN <<>> ELSE <<cur>>)
                  \o digit_runs(Tail(s), <<>>)

\* re.findall(r'\d{10,}', s)
findall_digits_10(s) ==
    SelectSeq(digit_runs(s, <<>>), LAMBDA r : Len(r) >= 10)

cmd_call_single(number) ==
    (K_action :> PyStr(call_single)) @@ (K_number :> PyStr(number))
cmd_call_all == (K_action :> PyStr(call_all))
cmd_unknown ==
    (K_action :> PyStr(unknown)) @@ (K_error :> PyStr(could_not_parse))

\* lines 207-215: the rules when no backend is configured
no_provider_fallback(prompt) ==
    LET numbers == findall_digits_10(prompt)
    IN  IF /\ contains(lower(prompt), S_call)
           /\ \E k \in 1..Len(prompt) : prompt[k] \in Digit
           /\ numbers # <<>>
        THEN cmd_call_single(numbers[1])
        ELSE IF \/ contains(lower(prompt), S_start_calling)
                \/ contains(lower(prompt), S_call_all)
        THEN cmd_call_all
        ELSE cmd_unknown

\* a mutant of regex_fallback: the rule for 'call all' is tried first
regex_fallback_all_first(prompt) ==
    LET numbers == findall_digits_10(prompt)
    IN  IF \/ contains(lower(prompt), S_start_calling)
           \/ contains(lower(prompt), S_call_all)
        THEN cmd_call_all
        ELSE IF contains(lower(prompt), S_call) /\ numbers # <<>>
        THEN cmd_call_single(numbers[1])
        ELSE cmd_unknown

\* lines 262-270: the rules after the backend path has not returned
regex_fallback(prompt) ==
    LET numbers == findall_digits_10(prompt)
    IN  IF contains(lower(prompt), S_call) /\ numbers # <<>>
        THEN cmd_call_single(numbers[1])
        ELSE IF \/ contains(lower(prompt), S_start_calling)
                \/ contains(lower(prompt), S_call_all)
        THEN cmd_call_all
        ELSE cmd_unknown

\* lines 49-56: the OpenAI client exists exactly when OpenAI is the provider
openai_client == ai_provider = "openai"

\* lines 237-260: Some(dict) when the try block returns, None when it falls
\* through or raises
backend_parse(reply) ==
    IF ai_provider = "gemini" \/ (ai_provider = "openai" /\ openai_client)
    THEN IF reply = None THEN None
         ELSE LET json_match == re_search_object(reply[1])
              IN  IF json_match # None
                  THEN json_loads_object(json_match[1])
                  ELSE None
    ELSE None

\* parse_ai_command(prompt), given what the backend replies
parse_ai_command(prompt, reply) ==
    IF ai_provider = "none" THEN no_provider_fallback(prompt)
    ELSE LET parsed == backend_parse(reply)
         IN  IF parsed # None THEN parsed[1] ELSE regex_fallback(prompt)


(***************************************************************************)
(* Inputs of the interpreter.                                              *)
(***************************************************************************)
P_call     == <<"C","a","l","l"," ","9","8","7","6","5","4","3","2","1","0",
                " ","n","o","w">>
P_all      == <<"s","t","a","r","t"," ","c","a","l","l","i","n","g"," ",
                "a","l","l"," ","n","u","m","b","e","r","s">>
P_hello    == <<"h","e","l","l","o"," ","t","h","e","r","e">>
P_both     == <<"c","a","l","l"," ","a","l","l"," ",
                "9","8","7","6","5","4","3","2","1","0">>
P_digits   == <<"d","i","a","l"," ","9","8","7","6","5","4","3","2","1","0">>
P_shortnum == <<"c","a","l","l"," ","1","2","3","4","5"," ","o","r"," ",
                "c","a","l","l"," ","a","l","l">>
P_upper    == <<"C","A","L","L"," ","A","L","L">>
P_two      == <<"p","l","e","a","s","e"," ","c","a","l","l"," ",
                "1","2","3","4","5"," ","o","r"," ",
                "0","0","4","4","2","0","7","1","8","3","8","7","5","0",
                " ","t","h","e","n"," ",
                "9","8","7","6","5","4","3","2","1","0">>
P_recall   == <<"r","e","c","a","l","l"," ",
                "1","2","3","4","5","6","7","8","9","0","1","2","3">>

Prompts ==
    {<<>>, P_call, P_all, P_hello, P_both, P_digits, P_shortnum, P_upper,
     P_two, P_recall}

K_foo     == <<"f","o","o">>
K_result  == <<"r","e","s","u","l","t">>
W_bar     == <<"b","a","r">>
W_unclear == <<"u","n","c","l","e","a","r">>
W_sure    == <<"S","u","r","e">>
W_sorry   == <<"s","o","r","r","y">>
W_hangup  == <<"h","a","n","g","u","p">>

\* {"action": "call_single", "number": "9876543210"}
R_single ==
    <<Punct("{"), StrLit(K_action), Punct(":"), Blank, StrLit(call_single),
      Punct(","), Blank, StrLit(K_number), Punct(":"), Blank,
      StrLit(N_india), Punct("}")>>
\* Sure {"action": "call_all"} sorry
R_all ==
    <<Word(W_sure), Blank, Punct("{"), StrLit(K_action), Punct(":"), Blank,
      StrLit(call_all), Punct("}"), Blank, Word(W_sorry)>>
\* {"action": "unknown", "error": "unclear"}
R_unknown ==
    <<Punct("{"), StrLit(K_action), Punct(":"), Blank, StrLit(unknown),
      Punct(","), Blank, StrLit(K_error), Punct(":"), Blank,
      StrLit(W_unclear), Punct("}")>>
\* {"action": "call_single", "number": 9876543210}
R_number_int ==
    <<Punct("{"), StrLit(K_action), Punct(":"), Blank, StrLit(call_single),
      Punct(","), Blank, StrLit(K_number), Punct(":"), Blank,
      NumLit(N_india), Punct("}")>>
\* {"action": "call_single"}
R_single_no_number ==
    <<Punct("{"), StrLit(K_action), Punct(":"), Blank, StrLit(call_single),
      Punct("}")>>
\* {} {"action": "call_all"}
R_empty_first ==
    <<Punct("{"), Punct("}"), Blank, Punct("{"), StrLit(K_action),
      Punct(":"), Blank, StrLit(call_all), Punct("}")>>
\* {"foo": "bar"}
R_other_shape ==
    <<Punct("{"), StrLit(K_foo), Punct(":"), Blank, StrLit(W_bar),
      Punct("}")>>
\* {"action": "hangup"}
R_other_action ==
    <<Punct("{"), StrLit(K_action), Punct(":"), Blank, StrLit(W_hangup),
      Punct("}")>>
\* { }
R_blank_object == <<Punct("{"), Blank, Punct("}")>>
\* sorry
R_no_json == <<Word(W_sorry)>>
\* {action: call_all}
R_unquoted ==
    <<Punct("{"), Word(K_action), Punct(":"), Blank, Word(call_all),
      Punct("}")>>
\* {"result": {"action": "call_all"}}
R_nested ==
    <<Punct("{"), StrLit(K_result), Punct(":"), Blank, Punct("{"),
      StrLit(K_action), Punct(":"), Blank, StrLit(call_all), Punct("}"),
      Punct("}")>>
\* {"action": "call_all"
R_unclosed ==
    <<Punct("{"), StrLit(K_action), Punct(":"), Blank, StrLit(call_all)>>

\* replies from which the try block returns a dict
ParsedReplies ==
    {Some(R_single), Some(R_all), Some(R_unknown), Some(R_number_int),
     Some(R_single_no_number), Some(R_empty_first), Some(R_other_shape),
     Some(R_other_action), Some(R_blank_object)}

\* backend failures: the call raises, the reply holds no brace-delimited
\* text, or the text found is not JSON
FailedReplies ==
    {None, Some(R_no_json), Some(R_unquoted), Some(R_nested),
     Some(R_unclosed)}

Replies == ParsedReplies \cup FailedReplies

(***************************************************************************)
(* SpecCmd: parse_ai_command run on one prompt under one configuration,    *)
(* with one reply of the backend.                                          *)
(***************************************************************************)
InitCmd ==
    /\ twilio_client = FALSE
    /\ ai_provider \in {"none", "gemini", "openai"}
    /\ verified_ids = <<>>
    /\ StoreOff /\ NormOff
    /\ c_pc = "start" /\ c_prompt \in Prompts
    /\ c_reply = None /\ c_parsed = None

\* lines 207-215: no backend is asked
InterpretWithoutBackend ==
    /\ c_pc = "start" /\ ai_provider = "none"
    /\ c_parsed' = Some(parse_ai_command(c_prompt, None))
    /\ c_pc' = "returned"
    /\ UNCHANGED <<c_prompt, c_reply, worldVars, storeVars, normVars>>

\* lines 217-270
InterpretWithBackend ==
    /\ c_pc = "start" /\ ai_provider # "none"
    /\ \E reply \in Replies :
          /\ c_reply' = reply
          /\ c_parsed' = Some(parse_ai_command(c_prompt, reply))
    /\ c_pc' = "returned"
    /\ UNCHANGED <<c_prompt, worldVars, storeVars, normVars>>

NextCmd == InterpretWithoutBackend \/ InterpretWithBackend

SpecCmd == InitCmd /\ [][NextCmd]_vars

Actions == {PyStr(call_single), PyStr(call_all), PyStr(unknown)}

\* C2: whatever the prompt, the configuration and the backend's reply, the
\* value parse_ai_command returns has an 'action' that is call_single,
\* call_all or unknown.
C2_AlwaysAVariant ==
    c_pc = "returned"
    => /\ K_action \in DOMAIN c_parsed[1]
       /\ c_parsed[1][K_action] \in Actions

\* s[a..b] is the first maximal run of at least 10 digits of s
IsFirstLongRun(s, a, b) ==
    /\ b - a + 1 >= 10
    /\ \A k \in a..b : s[k] \in Digit
    /\ a = 1 \/ s[a - 1] \notin Digit
    /\ b = Len(s) \/ s[b + 1] \notin Digit
    /\ ~ \E k \in 1..(a - 10) : \A m \in k..(k + 9) : s[m] \in Digit

HasLongRun(s) == \E a, b \in 1..Len(s) : IsFirstLongRun(s, a, b)

BackendAbsentOrFailed ==
    /\ c_pc = "returned"
    /\ ai_provider = "none" \/ c_reply \in FailedReplies

\* C8: when no backend is configured or the backend fails, a prompt holding
\* 'call' (in any case) and a run of at least 10 digits gives call_single
\* with the first such run; otherwise one holding 'start calling' or
\* 'call all' gives call_all; otherwise the result is unknown.
C8_FallbackRules ==
    BackendAbsentOrFailed =>
       /\ (contains(lower(c_prompt), S_call) /\ HasLongRun(c_prompt))
          => /\ DOMAIN c_parsed[1] = {K_action, K_number}
             /\ c_parsed[1][K_action] = PyStr(call_single)
             /\ \E a, b \in 1..Len(c_prompt) :
                   /\ IsFirstLongRun(c_prompt, a, b)
                   /\ c_parsed[1][K_number] = PyStr(SubSeq(c_prompt, a, b))
       /\ (/\ ~(contains(lower(c_prompt), S_call) /\ HasLongRun(c_prompt))
           /\ \/ contains(lower(c_prompt), S_start_calling)
              \/ contains(lower(c_prompt), S_call_all))
          => c_parsed[1] = cmd_call_all
       /\ (/\ ~(contains(lower(c_prompt), S_call) /\ HasLongRun(c_prompt))
           /\ ~contains(lower(c_prompt), S_start_calling)
           /\ ~contains(lower(c_prompt), S_call_all))
          => /\ DOMAIN c_parsed[1] = {K_action, K_error}
             /\ c_parsed[1][K_action] = PyStr(unknown)
       /\ c_prompt = P_call => c_parsed[1] = cmd_call_single(N_india)
       /\ c_prompt = P_all => c_parsed[1] = cmd_call_all
       /\ c_prompt = P_hello => c_parsed[1][K_action] = PyStr(unknown)

\* a prompt with both 'call all' and a number, after a failed backend call
C8_Witness ==
    /\ BackendAbsentOrFailed /\ ai_provider = "gemini" /\ c_reply # None
    /\ c_prompt = P_both
    /\ c_parsed[1] = cmd_call_single(N_india)


(***************************************************************************)
(* The Call Dispatcher.                                                    *)
(*                                                                         *)
(* In the text of an error an escape sequence, and each of the fixed       *)
(* phrases the code looks for or appends, is one element of the string.    *)
(***************************************************************************)
PyBool(b) == [t |-> "bool", v |-> b]
PyNone == [t |-> "None"]
PyList(items) == [t |-> "list", v |-> items]
PyDict(d) == [t |-> "dict", v |-> d]

\* bool(x) of a Python value, as in `if number:`
truthy(x) ==
    CASE x.t = "None" -> FALSE
      [] x.t = "bool" -> x.v
      [] x.t = "str"  -> x.v # <<>>
      [] x.t = "int"  -> \E k \in 1..Len(x.v) : x.v[k] # "0"
      [] OTHER        -> Len(x.v) > 0

\* d.get(key, default) on a dict with fixed keys
dict_get(d, key, default) == IF key \in DOMAIN d THEN d[key] ELSE default

DigitChars == <<"0", "1", "2", "3", "4", "5", "6", "7", "8", "9">>

\* str(n) for a natural number n
RECURSIVE itoa(_)
itoa(n) ==
    IF n < 10 THEN <<DigitChars[n + 1]>>
    ELSE itoa(n \div 10) \o <<DigitChars[(n % 10) + 1]>>

AnsiCodes == {"ESC[31m", "ESC[0m"}
PREAMBLE == "Twilio returned the following information:"
MORE_INFO == "More information may be available here:"
URL == "https://www.twilio.com/docs/errors/21210"
CONSOLE_URL ==
    "https://console.twilio.com/us1/develop/phone-numbers/manage/verified"

E_not_configured == <<"Twilio credentials not configured">>
HINT_SOURCE ==
    <<" | Fix: Use a Twilio-purchased number in TWILIO_PHONE_NUMBER (Twilio numbers are auto-verified)">>
HINT_DEST_1 == <<" | Action Required: Verify the DESTINATION number ">>
HINT_DEST_2 ==
    <<" at ", CONSOLE_URL,
      " (Trial accounts must verify numbers they want to CALL)">>
HINT_TIP ==
    <<" | Tip: For trial accounts, verify destination numbers in Twilio Console -> Verified Caller IDs">>

S_not_yet_verified ==
    <<"n","o","t"," ","y","e","t"," ","v","e","r","i","f","i","e","d">>
S_unverified == <<"u","n","v","e","r","i","f","i","e","d">>
S_verified == <<"v","e","r","i","f","i","e","d">>
S_source_phone_number ==
    <<"s","o","u","r","c","e"," ","p","h","o","n","e"," ",
      "n","u","m","b","e","r">>
W_failed == <<"f","a","i","l","e","d">>
W_queued == <<"q","u","e","u","e","d">>

\* strip_ansi_codes(text)
strip_ansi_codes(text) == SelectSeq(text, LAMBDA c : c \notin AnsiCodes)

\* the index of the first element x of s, 0 when there is none
index_of(s, x) ==
    IF \E k \in 1..Len(s) : s[k] = x
    THEN CHOOSE k \in 1..Len(s) : s[k] = x /\ \A m \in 1..(k - 1) : s[m] # x
    ELSE 0

\* lines 308-318 and 89-100: the text after the preamble, up to the
\* 'More information' footer, stripped; the text itself without a preamble
core_message(cleaned) ==
    IF index_of(cleaned, PREAMBLE) # 0
    THEN LET after == strip(SubSeq(cleaned, index_of(cleaned, PREAMBLE) + 1,
                                   Len(cleaned)))
             cut   == IF index_of(after, MORE_INFO) # 0
                      THEN SubSeq(after, 1, index_of(after, MORE_INFO) - 1)
                      ELSE after
             body  == strip(cut)
         IN  strip(IF body # <<>> /\ body[Len(body)] = URL
                   THEN SubSeq(body, 1, Len(body) - 1)
                   ELSE body)
    ELSE cleaned

\* re.search(r'\+?\d{10,}', s): the first run of at least 10 digits, with
\* the '+' before it when there is one
search_plus_digits(s) ==
    IF \E a, b \in 1..Len(s) :
          /\ b - a >= 9 /\ \A k \in a..b : s[k] \in Digit
    THEN LET a == CHOOSE a \in 1..Len(s) :
                     /\ a + 9 <= Len(s)
                     /\ \A k \in a..(a + 9) : s[k] \in Digit
                     /\ \A a2 \in 1..(a - 1) :
                           \E k \in a2..(a2 + 9) :
                               k > Len(s) \/ s[k] \notin Digit
             b == CHOOSE b \in a..Len(s) :
                     /\ \A k \in a..b : s[k] \in Digit
                     /\ b = Len(s) \/ s[b + 1] \notin Digit
         IN  Some(SubSeq(s, IF a > 1 /\ s[a - 1] = "+" THEN a - 1 ELSE a, b))
    ELSE None

\* lines 305-331: the error text for an exception whose str() is e
error_message(e) ==
    LET error_msg == core_message(strip_ansi_codes(e))
        low       == lower(error_msg)
    IN  IF \/ contains(low, S_not_yet_verified)
           \/ contains(low, S_unverified)
           \/ contains(low, S_verified)
        THEN IF contains(low, S_source_phone_number)
             THEN error_msg \o HINT_SOURCE
             ELSE LET number_match == search_plus_digits(error_msg)
                  IN  IF number_match # None
                      THEN error_msg \o HINT_DEST_1 \o number_match[1]
                               \o HINT_DEST_2
                      ELSE error_msg \o HINT_TIP
        ELSE error_msg

\* what the provider does with a request: it creates the call, with a sid
\* and a status, or the request raises an exception with a message
CallCreated(sid) == [ok |-> TRUE, sid |-> sid, status |-> W_queued]
CallRaised(message) == [ok |-> FALSE, message |-> message]

\* a mutant of make_twilio_call: the failure result of the except branch
\* reports success and carries no number
make_twilio_call_bad_failure(phone_number, outcome) ==
    IF ~twilio_client
    THEN [success |-> PyBool(FALSE), error |-> PyStr(E_not_configured)]
    ELSE IF outcome.ok
    THEN [success  |-> PyBool(TRUE),
          call_sid |-> PyStr(outcome.sid),
          status   |-> PyStr(outcome.status),
          number   |-> phone_number]
    ELSE [success |-> PyBool(TRUE),
          error   |-> PyStr(error_message(outcome.message))]

\* make_twilio_call(phone_number), given the outcome of the provider request
\* it makes when the client is configured
make_twilio_call(phone_number, outcome) ==
    IF ~twilio_client
    THEN [success |-> PyBool(FALSE), error |-> PyStr(E_not_configured)]
    ELSE IF outcome.ok
    THEN [success  |-> PyBool(TRUE),
          call_sid |-> PyStr(outcome.sid),
          status   |-> PyStr(outcome.status),
          number   |-> phone_number]
    ELSE [success |-> PyBool(FALSE),
          error   |-> PyStr(error_message(outcome.message)),
          number  |-> phone_number]

\* the requests make_twilio_call(phone_number) sends to the provider: one,
\* when the client is configured (line 291), and none otherwise (line 274)
provider_requests(phone_number, outcome) ==
    IF ~twilio_client THEN <<>>
    ELSE <<[to |-> phone_number, ok |-> outcome.ok]>>

\* a mutant of call_log_of: the number is the one the result carries
call_log_of_result_number(number, result, clock) ==
    [number    |-> dict_get(result, "number", PyNone),
     status    |-> dict_get(result, "status", PyStr(W_failed)),
     success   |-> dict_get(result, "success", PyBool(FALSE)),
     timestamp |-> PyStr(clock),
     call_sid  |-> dict_get(result, "call_sid", PyNone),
     error     |-> dict_get(result, "error", PyNone)]

\* the dict built from a result in lines 375-382, 404-411 and 441-448; clock
\* is the text of what datetime.now() returns
call_log_of(number, result, clock) ==
    [number    |-> number,
     status    |-> dict_get(result, "status", PyStr(W_failed)),
     success   |-> dict_get(result, "success", PyBool(FALSE)),
     timestamp |-> PyStr(clock),
     call_sid  |-> dict_get(result, "call_sid", PyNone),
     error     |-> dict_get(result, "error", PyNone)]

(***************************************************************************)
(* The Call Log Store.                                                     *)
(*                                                                         *)
(* The file is absent (None) or holds a text.  A text is the JSON array    *)
(* json.dump writes, the JSON object {}, or nothing at all (the file just  *)
(* opened for writing), which is not JSON.                                 *)
(***************************************************************************)
JsonArray(items) == [kind |-> "array", items |-> items]
JsonEmptyObject == [kind |-> "object", items |-> <<>>]
EmptyText == [kind |-> "empty", items |-> <<>>]

\* json.dump of one value of a call log entry
json_encode(x) ==
    CASE x.t = "None" -> [j |-> "null"]
      [] x.t = "bool" -> (IF x.v THEN [j |-> "true"] ELSE [j |-> "false"])
      [] x.t = "str"  -> [j |-> "string", v |-> x.v]
      [] x.t = "int"  -> [j |-> "number", v |-> x.v]

\* json.load of one value
json_decode(y) ==
    CASE y.j = "null"   -> PyNone
      [] y.j = "true"   -> PyBool(TRUE)
      [] y.j = "false"  -> PyBool(FALSE)
      [] y.j = "string" -> PyStr(y.v)
      [] y.j = "number" -> PyInt(y.v)

\* a mutant of json_dump: None is written as the string "None"
json_dump_none_as_text(logs) ==
    JsonArray([k \in 1..Len(logs) |->
        [f \in DOMAIN logs[k] |->
            IF logs[k][f] = PyNone
            THEN [j |-> "string", v |-> <<"N", "o", "n", "e">>]
            ELSE json_encode(logs[k][f])]])

\* json.dump(logs, f, indent=2) for a list of dicts
json_dump(logs) ==
    JsonArray([k \in 1..Len(logs) |->
        [f \in DOMAIN logs[k] |-> json_encode(logs[k][f])]])

\* json.load(f): Some(value), or None when it raises
json_load(text) ==
    IF text.kind = "array"
    THEN Some(PyList([k \in 1..Len(text.items) |->
             [f \in DOMAIN text.items[k] |-> json_decode(text.items[k][f])]]))
    ELSE IF text.kind = "object" THEN Some(PyDict(<<>>))
    ELSE None

\* load_call_logs(), on the file as it is
load_call_logs(file) ==
    IF file # None
    THEN LET loaded == json_load(file[1])
         IN  IF loaded # None THEN loaded[1] ELSE PyList(<<>>)
    ELSE PyList(<<>>)

\* clean_error_message(error_text)
clean_error_message(error_text) ==
    IF ~truthy(error_text) THEN error_text
    ELSE PyStr(core_message(strip_ansi_codes(error_text.v)))

\* the loop of cleanup_all_logs (lines 117-121) over a list of dicts
cleaned_logs_of(logs) ==
    [k \in 1..Len(logs) |->
        IF "error" \in DOMAIN logs[k] /\ truthy(logs[k].error)
        THEN [logs[k] EXCEPT !.error = clean_error_message(@)]
        ELSE logs[k]]


(***************************************************************************)
(* The HTTP handlers.  A request is a record: its endpoint, its position   *)
(* in the handler (pc), the handler's local variables, and what it ended   *)
(* with: a response, or an exception that left the handler.                *)
(***************************************************************************)
Requests == 1..NumRequests

IdleRequest ==
    [ep |-> "none", pc |-> "idle", parsed |-> None, phone_numbers |-> <<>>,
     i |-> 0, result |-> None, call_log |-> None, logs |-> <<>>,
     results |-> <<>>, response |-> None, raised |-> None]

\* an entry written by an earlier run, whose error still holds escape codes
LegacyEntry ==
    [number    |-> PyStr(<<"+", "1">> \o N_us),
     status    |-> PyStr(W_failed),
     success   |-> PyBool(FALSE),
     timestamp |-> PyStr(<<"T", "0">>),
     call_sid  |-> PyNone,
     error     |-> PyStr(<<"ESC[31m", "b", "u", "s", "y", "ESC[0m">>)]

\* the file when the service starts: absent, holding [], or written by an
\* earlier run (a file of length zero, which is not JSON, is what every
\* rewrite leaves between its open and its dump)
InitialFiles ==
    {None, Some(json_dump(<<>>)), Some(json_dump(<<LegacyEntry>>))}

\* the exception a provider request raises: a verbose Twilio error with
\* escape codes, the preamble and the footer
X_source ==
    <<"ESC[31m", "HTTP 400 error: ", PREAMBLE, "\n", "ESC[0m">>
        \o S_source_phone_number \o <<" ">> \o S_not_yet_verified
        \o <<"\n", MORE_INFO, "\n", URL>>

\* the provider gives each call it creates a sid of its own
ProviderOutcomes(p, i) ==
    {CallCreated(<<"C", "A">> \o itoa(p) \o itoa(i)), CallRaised(X_source)}

\* datetime.now().isoformat(), read by request p in its i-th iteration: no two
\* readings are equal
isoformat_now(p, i) == <<"T">> \o itoa(p) \o <<".">> \o itoa(i)

\* the form of a POST /call: an upload whose bytes are UTF-8 or not, or the
\* numbers field
GoodUpload(text) == Some([utf8 |-> TRUE, text |-> text])
BadUpload == Some([utf8 |-> FALSE, text |-> <<>>])
CallForms ==
    {[file |-> BadUpload, numbers |-> None],
     [file |-> GoodUpload(T_scenario), numbers |-> None],
     [file |-> None, numbers |-> Some(N_local)],
     [file |-> None, numbers |-> Some(N_short)],
     [file |-> None, numbers |-> None]}

\* the form of a POST /ai-command, and what the backend replies
AiCommands == {P_call, P_all, P_hello}
AiNumbers == {None, Some(T_scenario), Some(N_short)}
AiReplies ==
    {None, Some(R_all), Some(R_number_int), Some(R_single_no_number),
     Some(R_other_shape)}

CheckedNumbers == {N_local, N_eleven}

py_strings(numbers) == [k \in 1..Len(numbers) |-> PyStr(numbers[k])]

Respond(p, r, body) ==
    [r EXCEPT !.pc = "done", !.response = Some(body), !.result = None,
              !.call_log = None, !.logs = <<>>]
Raise(p, r, exception) ==
    [r EXCEPT !.pc = "raised", !.raised = Some(exception), !.result = None,
              !.call_log = None, !.logs = <<>>]

\* requests are numbered in the order in which they arrive
Arrives(p) == req[p].pc = "idle" /\ \A q \in 1..(p - 1) : req[q].pc # "idle"

Init ==
    /\ twilio_client \in BOOLEAN
    /\ ai_provider \in {"none", "gemini"}
    /\ verified_ids = IF twilio_client THEN <<V_us>> ELSE <<>>
    /\ calls_json \in InitialFiles
    /\ calls_json_0 = calls_json
    /\ provider_calls = [p \in Requests |-> <<>>]
    /\ req = [p \in Requests |-> IdleRequest]
    /\ NormOff /\ CmdOff

\* POST /call, lines 356-372: up to the first iteration of the loop
initiate_calls(p) ==
    /\ Arrives(p)
    /\ \E form \in CallForms, list_ok \in BOOLEAN :
          LET r == [req[p] EXCEPT !.ep = "/call"]
          IN  IF form.file # None /\ ~form.file[1].utf8
              THEN req' = [req EXCEPT ![p] = Raise(p, r, "UnicodeDecodeError")]
              ELSE LET phone_numbers ==
                           IF form.file # None
                           THEN parse_phone_numbers(form.file[1].text, list_ok)
                           ELSE IF form.numbers # None /\ form.numbers[1] # <<>>
                           THEN parse_phone_numbers(form.numbers[1], list_ok)
                           ELSE <<>>
                   IN  IF phone_numbers = <<>>
                       THEN req' = [req EXCEPT ![p] = Respond(p, r,
                                [status_code |-> 200, success |-> FALSE,
                                 error |-> "No valid phone numbers provided"])]
                       ELSE req' = [req EXCEPT ![p] =
                                [r EXCEPT !.phone_numbers =
                                              py_strings(phone_numbers),
                                          !.i = 1, !.pc = "dispatch"]]
    /\ UNCHANGED <<calls_json, provider_calls, worldVars, normVars,
                   cmdVars>>

\* POST /ai-command, lines 398-437 and 459-464: up to the first call
handle_ai_command(p) ==
    /\ Arrives(p)
    /\ \E command \in AiCommands, numbers \in AiNumbers,
          reply \in (IF ai_provider = "none" THEN {None} ELSE AiReplies),
          list_ok \in BOOLEAN :
          LET parsed == parse_ai_command(command, reply)
              r == [req[p] EXCEPT !.ep = "/ai-command",
                                  !.parsed = Some(parsed)]
          IN  IF K_action \notin DOMAIN parsed
              THEN req' = [req EXCEPT ![p] = Raise(p, r, "KeyError")]
              ELSE IF parsed[K_action] = PyStr(call_single)
              THEN LET number == dict_get(parsed, K_number, PyNone)
                   IN  IF truthy(number)
                       THEN req' = [req EXCEPT ![p] =
                                [r EXCEPT !.phone_numbers = <<number>>,
                                          !.i = 1, !.pc = "dispatch"]]
                       ELSE req' = [req EXCEPT ![p] = Respond(p, r,
                                [status_code |-> 200, success |-> FALSE,
                                 error |-> "No phone number found in command"])]
              ELSE IF parsed[K_action] = PyStr(call_all)
              THEN IF numbers = None \/ numbers[1] = <<>>
                   THEN req' = [req EXCEPT ![p] = Respond(p, r,
                            [status_code |-> 200, success |-> FALSE,
                             error |-> "No phone numbers available to call"])]
                   ELSE LET phone_numbers ==
                                parse_phone_numbers(numbers[1], list_ok)
                        IN  IF phone_numbers = <<>>
                            THEN req' = [req EXCEPT ![p] = Respond(p, r,
                                     [status_code |-> 200, success |-> FALSE,
                                      error |-> "No valid phone numbers found"])]
                            ELSE req' = [req EXCEPT ![p] =
                                     [r EXCEPT !.phone_numbers =
                                                   py_strings(phone_numbers),
                                               !.i = 1, !.pc = "dispatch"]]
              ELSE req' = [req EXCEPT ![p] = Respond(p, r,
                       [status_code |-> 200, success |-> FALSE,
                        error |-> "Unknown command"])]
    /\ UNCHANGED <<calls_json, provider_calls, worldVars, normVars,
                   cmdVars>>

\* lines 374-382, 403-411 and 440-448: one call of make_twilio_call and the
\* log entry built from its result
Dispatch(p) ==
    /\ req[p].pc = "dispatch"
    /\ \E outcome \in ProviderOutcomes(p, req[p].i) :
          LET number == req[p].phone_numbers[req[p].i]
              result == make_twilio_call(number, outcome)
          IN  /\ provider_calls' =
                     [provider_calls EXCEPT ![p] =
                         @ \o provider_requests(number, outcome)]
              /\ req' = [req EXCEPT ![p] =
                     [@ EXCEPT !.result = Some(result),
                               !.call_log =
                                   Some(call_log_of(number, result,
                                            isoformat_now(p, req[p].i))),
                               !.pc = "load"]]
    /\ UNCHANGED <<calls_json, worldVars, normVars, cmdVars>>

\* save_call_log, lines 75-76: the log is loaded and the entry appended to
\* the loaded value, which has no append when it is not a list
SaveLoad(p) ==
    /\ req[p].pc = "load"
    /\ LET logs == load_call_logs(calls_json)
       IN  IF logs.t = "list"
           THEN req' = [req EXCEPT ![p] =
                    [@ EXCEPT !.logs = Append(logs.v, req[p].call_log[1]),
                              !.pc = "open"]]
           ELSE req' = [req EXCEPT ![p] = Raise(p, @, "AttributeError")]
    /\ UNCHANGED <<calls_json, provider_calls, worldVars, normVars,
                   cmdVars>>

\* save_call_log, line 77: open(CALLS_JSON, 'w') empties the file
SaveOpen(p) ==
    /\ req[p].pc = "open"
    /\ calls_json' = Some(EmptyText)
    /\ req' = [req EXCEPT ![p].pc = "write"]
    /\ UNCHANGED <<provider_calls, worldVars, normVars, cmdVars>>

\* a mutant of text_to_write: the list is read again from the file, which the
\* open has just emptied
text_to_write_reloaded(logs, file) ==
    json_dump(Append(load_call_logs(file).v, logs[Len(logs)]))

\* line 78: what save_call_log writes is the list it loaded, with the entry
text_to_write(logs, file) == json_dump(logs)

\* save_call_log, line 78, and what follows it in the handler: the next
\* iteration, or the response
SaveWrite(p) ==
    /\ req[p].pc = "write"
    /\ calls_json' = Some(text_to_write(req[p].logs, calls_json))
    /\ LET r == [req[p] EXCEPT !.logs = <<>>,
                               !.results = Append(@, req[p].call_log[1])]
       IN  IF r.i < Len(r.phone_numbers)
           THEN req' = [req EXCEPT ![p] =
                    [r EXCEPT !.i = @ + 1, !.pc = "dispatch",
                              !.result = None, !.call_log = None]]
           ELSE req' = [req EXCEPT ![p] = Respond(p, r,
                    [status_code |-> 200, success |-> TRUE,
                     total |-> Len(r.phone_numbers)])]
    /\ UNCHANGED <<provider_calls, worldVars, normVars, cmdVars>>

\* GET /api/logs, lines 466-470
get_logs(p) ==
    /\ Arrives(p)
    /\ req' = [req EXCEPT ![p] =
           Respond(p, [@ EXCEPT !.ep = "/api/logs"],
                   [status_code |-> 200, logs |-> load_call_logs(calls_json)])]
    /\ UNCHANGED <<calls_json, provider_calls, worldVars, normVars,
                   cmdVars>>

\* POST /api/cleanup-logs: cleanup_all_logs, lines 116-121
CleanupLoad(p) ==
    /\ Arrives(p)
    /\ req' = [req EXCEPT ![p] =
           [@ EXCEPT !.ep = "/api/cleanup-logs", !.pc = "cleanup_open",
                     !.logs = cleaned_logs_of(load_call_logs(calls_json).v)]]
    /\ UNCHANGED <<calls_json, provider_calls, worldVars, normVars,
                   cmdVars>>

\* line 124
CleanupOpen(p) ==
    /\ req[p].pc = "cleanup_open"
    /\ calls_json' = Some(EmptyText)
    /\ req' = [req EXCEPT ![p].pc = "cleanup_write"]
    /\ UNCHANGED <<provider_calls, worldVars, normVars, cmdVars>>

\* lines 125-127 and 477-481
CleanupWrite(p) ==
    /\ req[p].pc = "cleanup_write"
    /\ calls_json' = Some(json_dump(req[p].logs))
    /\ req' = [req EXCEPT ![p] = Respond(p, @,
           [status_code |-> 200, success |-> TRUE,
            count |-> Len(req[p].logs)])]
    /\ UNCHANGED <<provider_calls, worldVars, normVars, cmdVars>>

\* GET /api/check-verification/{phone_number}, lines 491-528
check_verification(p) ==
    /\ Arrives(p)
    /\ \E phone_number \in CheckedNumbers, list_ok \in BOOLEAN :
          LET r == [req[p] EXCEPT !.ep = "/api/check-verification"]
              stripped == strip(phone_number)
              cleaned_number ==
                  IF ~startswith(stripped, <<"+">>)
                  THEN IF Len(stripped) = 10 THEN <<"+", "1">> \o stripped
                       ELSE IF Len(stripped) = 11
                               /\ startswith(stripped, <<"1">>)
                       THEN <<"+">> \o stripped
                       ELSE stripped
                  ELSE stripped
              normalized_verified ==
                  {KeepDigitsPlus(verified_ids[k]) :
                       k \in 1..Len(verified_ids)}
          IN  IF ~twilio_client
              THEN req' = [req EXCEPT ![p] = Respond(p, r,
                       [status_code |-> 200, success |-> FALSE,
                        error |-> "Twilio credentials not configured"])]
              ELSE IF ~list_ok
              THEN req' = [req EXCEPT ![p] = Respond(p, r,
                       [status_code |-> 500, success |-> FALSE,
                        error |-> "str(e)"])]
              ELSE req' = [req EXCEPT ![p] = Respond(p, r,
                       [status_code |-> 200, success |-> TRUE,
                        is_verified |-> KeepDigitsPlus(cleaned_number)
                                            \in normalized_verified])]
    /\ UNCHANGED <<calls_json, provider_calls, worldVars, normVars,
                   cmdVars>>

Next ==
    \E p \in Requests :
        \/ initiate_calls(p)
        \/ handle_ai_command(p)
        \/ Dispatch(p)
        \/ SaveLoad(p)
        \/ SaveOpen(p)
        \/ SaveWrite(p)
        \/ get_logs(p)
        \/ CleanupLoad(p)
        \/ CleanupOpen(p)
        \/ CleanupWrite(p)
        \/ check_verification(p)

Spec == Init /\ [][Next]_vars


(***************************************************************************)
(* Handlers run to completion one step at a time and may overlap: the      *)
(* steps of save_call_log of two requests interleave when the service is   *)
(* run by several workers, and nothing in the code excludes it.            *)
(***************************************************************************)
\* request q has changed the file
Wrote(q) ==
    \/ req[q].results # <<>>
    \/ req[q].pc \in {"write", "cleanup_write"}
    \/ req[q].ep = "/api/cleanup-logs" /\ req[q].pc = "done"

NoOtherWriter(p) == \A q \in Requests \ {p} : ~Wrote(q)

EarlierEntries == load_call_logs(calls_json_0).v

\* C3: from an absent or empty log, and with no other writer, after the N
\* calls of save_call_log a request has completed load_call_logs returns
\* exactly the N records it saved, in order.
C3_RoundTrip ==
    \A p \in Requests :
        (/\ calls_json_0 \in {None, Some(json_dump(<<>>))}
         /\ NoOtherWriter(p)
         /\ req[p].pc \notin {"write", "cleanup_write"})
        => load_call_logs(calls_json) = PyList(req[p].results)

C3_Witness ==
    \E p \in Requests :
        /\ calls_json_0 = None /\ NoOtherWriter(p)
        /\ req[p].pc = "done" /\ Len(req[p].results) = 2
        /\ req[p].results[1].call_sid = PyNone
        /\ req[p].results[2].call_sid # PyNone
        /\ load_call_logs(calls_json) = PyList(req[p].results)

\* C4: the rewrite of save_call_log persists the list the request loaded
\* earlier with its entry appended, whatever the file has come to hold since;
\* so two overlapping requests can both complete while the log keeps the
\* entry of only one of them (C4_LostUpdate).
C4_StaleWriteWins ==
    [][\A p \in Requests :
          (req[p].pc = "write" /\ req'[p].pc # "write")
          => load_call_logs(calls_json') = PyList(req[p].logs)]_vars

C4_LostUpdate ==
    \E p, q \in Requests :
        /\ p # q
        /\ req[p].pc = "done" /\ req[q].pc = "done"
        /\ Len(req[p].results) = 1 /\ Len(req[q].results) = 1
        /\ req[p].response[1].success /\ req[q].response[1].success
        /\ load_call_logs(calls_json).v = EarlierEntries \o req[q].results

\* C5: no request ends with an exception leaving its handler.
C5_NothingEscapes == \A p \in Requests : req[p].pc # "raised"

\* C9: make_twilio_call returns to the handler with a result.  Without a
\* client the result is the configuration error and the provider receives no
\* request; when the provider request raises, the result has success False,
\* an error text and the number.
C9_DispatcherResult ==
    \A p \in Requests :
        /\ ~twilio_client => provider_calls[p] = <<>>
        /\ req[p].result # None
           => LET result == req[p].result[1]
                  number == req[p].phone_numbers[req[p].i]
                  calls  == provider_calls[p]
              IN  /\ req[p].pc \in {"load", "open", "write"}
                  /\ req[p].raised = None
                  /\ ~twilio_client
                     => result = [success |-> PyBool(FALSE),
                                  error   |-> PyStr(E_not_configured)]
                  /\ twilio_client
                     => /\ calls # <<>> /\ calls[Len(calls)].to = number
                        /\ ~calls[Len(calls)].ok
                           => /\ DOMAIN result = {"success", "error", "number"}
                              /\ result.success = PyBool(FALSE)
                              /\ result.error.t = "str"
                              /\ result.number = number
                        /\ calls[Len(calls)].ok
                           => result.success = PyBool(TRUE)

C9_Witness ==
    \E p \in Requests :
        /\ twilio_client /\ req[p].result # None
        /\ ~provider_calls[p][Len(provider_calls[p])].ok
        /\ req[p].result[1].success = PyBool(FALSE)
        /\ req[p].pc = "load"

\* C10: a request makes its provider calls one after the other, each after
\* the entry of the one before has been saved; with no other writer the log
\* holds the earlier entries followed by one entry per number called, in the
\* order of the numbers, whether the calls succeeded or not.
C10_SequentialAppend ==
    \A p \in Requests :
        LET calls   == provider_calls[p]
            results == req[p].results
            numbers == req[p].phone_numbers
        IN  /\ twilio_client
               => /\ Len(calls) =
                        Len(results)
                          + (IF req[p].pc \in {"load", "open", "write"}
                             THEN 1 ELSE 0)
                  /\ \A j \in 1..Len(calls) : calls[j].to = numbers[j]
                  /\ \A j \in 1..Len(results) :
                        results[j].success = PyBool(calls[j].ok)
            /\ \A j \in 1..Len(results) : results[j].number = numbers[j]
            /\ Len(results) <= Len(numbers)
            /\ (req[p].pc = "done" /\ numbers # <<>>)
               => Len(results) = Len(numbers)
            /\ (NoOtherWriter(p)
                    /\ req[p].pc \notin {"write", "cleanup_write"}
                    /\ req[p].ep # "/api/cleanup-logs")
               => load_call_logs(calls_json).v = EarlierEntries \o results

C10_Witness ==
    \E p \in Requests :
        /\ twilio_client /\ NoOtherWriter(p)
        /\ calls_json_0 = Some(json_dump(<<LegacyEntry>>))
        /\ req[p].pc = "done" /\ Len(req[p].phone_numbers) = 2
        /\ req[p].results[1].success = PyBool(FALSE)
        /\ req[p].results[2].success = PyBool(TRUE)
        /\ load_call_logs(calls_json).v = <<LegacyEntry>> \o req[p].results

\* a number is an output of the Number Normalizer when it is a str that
\* parse_phone_numbers returns as it is
IsNormalized(number) ==
    /\ number.t = "str"
    /\ \E list_ok \in BOOLEAN :
          parse_phone_numbers(number.v, list_ok) = <<number.v>>

\* the number request p has handed to make_twilio_call and not yet saved
Dispatched(p) ==
    IF req[p].pc \in {"load", "open", "write"}
    THEN {req[p].phone_numbers[req[p].i]}
    ELSE {}

\* C11: every number handed to make_twilio_call, and every number of an
\* entry a request has saved, is an output of parse_phone_numbers.
C11_OnlyNormalizedDispatched ==
    \A p \in Requests :
        /\ \A number \in Dispatched(p) : IsNormalized(number)
        /\ \A j \in 1..Len(req[p].results) :
              IsNormalized(req[p].results[j].number)

=============================================================================
